---- MODULE Spec2Model ----
(***************************************************************************)
(* Attendance core of the EMS backend: check-in, check-out, start-break    *)
(* and end-break request handlers (attendanceController), the geofence     *)
(* service and the Prisma-managed tables they read and write.              *)
(*                                                                         *)
(* Every handler is an async function; it runs to its next `await` without *)
(* interruption, and other requests and the clock may move between two     *)
(* awaits.  One action of the model is one store call of a handler         *)
(* together with the synchronous code that follows it up to the next       *)
(* store call or the response.                                             *)
(*                                                                         *)
(* Units: instants are minutes since the epoch (UTC).  Latitudes and       *)
(* longitudes are integers in units of 1/UnitsPerDegree degree, which is   *)
(* one metre of arc along a meridian for the Earth radius of geoService;   *)
(* all points of the model lie on one meridian, where the haversine        *)
(* distance is the absolute difference of the latitudes.                   *)
(***************************************************************************)
EXTENDS Integers, Sequences, FiniteSets, TLC

VARIABLES now, tz, cfg, fault, locations, attendance, breaks, pc, req, out, served

vars == <<now, tz, cfg, fault, locations, attendance, breaks, pc, req, out, served>>

----------------------------------------------------------------------------
(* Bounds of the model *)

MaxTicks == 3
MaxRaceTicks == 1
MaxBreaks == 2
MaxRequests == 5
MaxRaceRequests == 4

Procs == {"r1", "r2"}
Users == {"u1"}
StartInstant == 9 * 60
TickMinutes == 5 * 60
Steps == {TickMinutes}
StartInstants == {StartInstant}
TzOffsets == {0}

----------------------------------------------------------------------------
(* Values *)

Null == <<>>
Some(v) == <<v>>
IsNull(o) == o = <<>>
Val(o) == o[1]

MinutesPerDay == 24 * 60
UnitsPerDegree == 111195

Abs(x) == IF x < 0 THEN 0 - x ELSE x

----------------------------------------------------------------------------
(* config/env.ts *)

DefaultConfig ==
  [OFFICE_START_HOUR |-> 10, LATE_THRESHOLD_MINUTES |-> 60,
   HALF_DAY_HOUR |-> 14, SKIP_GEOFENCE |-> FALSE]

Configs == {DefaultConfig}

----------------------------------------------------------------------------
(* Date: the server's local wall clock *)

LocalMinutes(t, offset) == t + offset
getDate(t, offset) == LocalMinutes(t, offset) \div MinutesPerDay
getHours(t, offset) == (LocalMinutes(t, offset) % MinutesPerDay) \div 60
getMinutes(t, offset) == LocalMinutes(t, offset) % 60

(* getUtcMidnight: Date.UTC of the LOCAL year, month and day; the DATE     *)
(* column keeps the day number.                                            *)
getUtcMidnight(t, offset) == getDate(t, offset)

----------------------------------------------------------------------------
(* services/geoService *)

(* Values of the request body.  A finite number is the integer itself; the *)
(* other values JavaScript can hand to validateCoordinates are codes that  *)
(* lie outside every finite coordinate of the model: the numbers Infinity, *)
(* -Infinity and NaN, and two values whose typeof is not 'number' (a       *)
(* missing field and a numeric string).                                    *)
JsInfinity == 1000 * UnitsPerDegree
JsNegInfinity == 0 - JsInfinity
JsNaN == 2000 * UnitsPerDegree
JsUndefined == 3000 * UnitsPerDegree
JsString == 4000 * UnitsPerDegree

(* typeof v === 'number' *)
typeofNumber(v) == v \notin {JsUndefined, JsString}

(* a >= b and a <= b of JavaScript numbers: false when a is NaN *)
Geq(a, b) == a # JsNaN /\ a >= b
Leq(a, b) == a # JsNaN /\ a <= b

(* Variant: the bounds of the ranges are excluded.                         *)
validateCoordinates_exclusive(lat, lon) ==
  /\ typeofNumber(lat)
  /\ typeofNumber(lon)
  /\ Geq(lat, (0 - 90) * UnitsPerDegree + 1) /\ Leq(lat, 90 * UnitsPerDegree - 1)
  /\ Geq(lon, (0 - 180) * UnitsPerDegree + 1) /\ Leq(lon, 180 * UnitsPerDegree - 1)

validateCoordinates(lat, lon) ==
  /\ typeofNumber(lat)
  /\ typeofNumber(lon)
  /\ Geq(lat, (0 - 90) * UnitsPerDegree) /\ Leq(lat, 90 * UnitsPerDegree)
  /\ Geq(lon, (0 - 180) * UnitsPerDegree) /\ Leq(lon, 180 * UnitsPerDegree)

(* The haversine distance, rounded to metres, of two points on one great   *)
(* circle through the poles: on the same meridian it is the difference of  *)
(* the latitudes, on opposite meridians the arc over the nearer pole.      *)
calculateDistance(lat1, lon1, lat2, lon2) ==
  LET deltaLambda == Abs(lon2 - lon1)
  IN  CASE deltaLambda = 0 \/ deltaLambda = 360 * UnitsPerDegree -> Abs(lat2 - lat1)
        [] deltaLambda = 180 * UnitsPerDegree ->
             180 * UnitsPerDegree - Abs(lat1 + lat2)

(* Variant: a point on the boundary circle is outside.                     *)
RECURSIVE isWithinGeofenceFrom_strict(_, _, _, _)
isWithinGeofenceFrom_strict(userLat, userLon, locs, i) ==
  IF i > Len(locs) THEN Null
  ELSE IF calculateDistance(userLat, userLon, locs[i].latitude, locs[i].longitude)
            < locs[i].radius_meters
       THEN Some(locs[i])
       ELSE isWithinGeofenceFrom_strict(userLat, userLon, locs, i + 1)

(* for (const location of locations): the first location in range *)
RECURSIVE isWithinGeofenceFrom(_, _, _, _)
isWithinGeofenceFrom(userLat, userLon, locs, i) ==
  IF i > Len(locs) THEN Null
  ELSE IF calculateDistance(userLat, userLon, locs[i].latitude, locs[i].longitude)
            <= locs[i].radius_meters
       THEN Some(locs[i])
       ELSE isWithinGeofenceFrom(userLat, userLon, locs, i + 1)

(* Variant: of the locations in range, the nearest one is returned.        *)
isWithinGeofence_nearest(userLat, userLon, locs) ==
  LET d(i) == calculateDistance(userLat, userLon, locs[i].latitude, locs[i].longitude)
      inRange == {i \in DOMAIN locs : d(i) <= locs[i].radius_meters}
  IN  IF inRange = {} THEN Null
      ELSE Some(locs[CHOOSE i \in inRange :
                       \A j \in inRange : d(i) < d(j) \/ (d(i) = d(j) /\ i <= j)])

isWithinGeofence(userLat, userLon, locs) ==
  isWithinGeofenceFrom(userLat, userLon, locs, 1)

----------------------------------------------------------------------------
(* services/notificationService.  fault is the store call that fails while *)
(* the request runs; an async function ends "resolved" or "rejected".      *)

NoFault == "none"
NotificationFaults == {"recipients", "createNotification"}
Faults == {NoFault, "userLookup"} \cup NotificationFaults

(* await prisma.<model>.<call>(...) *)
prismaCall(f, call) == IF f = call THEN "rejected" ELSE "resolved"

(* try { ... } catch (error) { logger.error(...) }: nothing is rethrown *)
Caught(outcome) == "resolved"

(* createNotification: prisma.notification.create inside try/catch *)
createNotification(f) == Caught(prismaCall(f, "createNotification"))

(* Variant: the failure of the recipient query is not caught.              *)
notifyUsersByRole_noCatch(f) ==
  IF prismaCall(f, "recipients") = "rejected" THEN "rejected"
  ELSE createNotification(f)

(* notifyUsersByRole: prisma.user.findMany, then createNotification for    *)
(* every recipient, inside try/catch                                       *)
notifyUsersByRole(f) ==
  Caught(IF prismaCall(f, "recipients") = "rejected" THEN "rejected"
         ELSE createNotification(f))

(* notifyTeamLead: prisma.team.findUnique, then createNotification for the *)
(* lead, inside try/catch                                                  *)
notifyTeamLead(f) ==
  Caught(IF prismaCall(f, "recipients") = "rejected" THEN "rejected"
         ELSE createNotification(f))

(* The tail of checkIn and checkOut after the write: the user lookup, then *)
(* the admins and the team lead are notified; a rejected await reaches the *)
(* handler's catch.                                                        *)
afterWrite(f) ==
  IF prismaCall(f, "userLookup") = "rejected" THEN "rejected"
  ELSE IF notifyUsersByRole(f) = "rejected" THEN "rejected"
  ELSE notifyTeamLead(f)

----------------------------------------------------------------------------
(* controllers/attendanceController: time-of-day rules *)

(* Variant: the late threshold is compared as minutes of the start hour,   *)
(* without carrying whole hours.                                           *)
classifyCheckIn_noCarry(checkInHour, checkInMinutes, c) ==
  IF checkInHour > c.HALF_DAY_HOUR
     \/ (checkInHour = c.HALF_DAY_HOUR /\ checkInMinutes > 0)
  THEN "HALF_DAY"
  ELSE IF checkInHour > c.OFFICE_START_HOUR
          \/ (checkInHour = c.OFFICE_START_HOUR
                /\ checkInMinutes > c.LATE_THRESHOLD_MINUTES)
       THEN "LATE"
       ELSE "PRESENT"

(* checkIn, "Determine status based on office timing rules" *)
classifyCheckIn(checkInHour, checkInMinutes, c) ==
  LET lateAfterHour == c.OFFICE_START_HOUR + (c.LATE_THRESHOLD_MINUTES \div 60)
      lateAfterMinutes == c.LATE_THRESHOLD_MINUTES % 60
  IN  IF checkInHour > c.HALF_DAY_HOUR
         \/ (checkInHour = c.HALF_DAY_HOUR /\ checkInMinutes > 0)
      THEN "HALF_DAY"
      ELSE IF checkInHour > lateAfterHour
              \/ (checkInHour = lateAfterHour /\ checkInMinutes > lateAfterMinutes)
           THEN "LATE"
           ELSE "PRESENT"

(* Variant: a check-out during the half-day hour still counts as early.    *)
classifyCheckOut_inclusive(checkOutHour, c, currentStatus) ==
  IF checkOutHour <= c.HALF_DAY_HOUR THEN "HALF_DAY" ELSE currentStatus

(* checkOut, "HALF_DAY if checking out before HALF_DAY_HOUR" *)
classifyCheckOut(checkOutHour, c, currentStatus) ==
  IF checkOutHour < c.HALF_DAY_HOUR THEN "HALF_DAY" ELSE currentStatus

(* startBreak: validTypes and durationMap *)
validTypes == {"WALKING", "TEA", "LUNCH"}

(* Variant: the lunch break is given half an hour.                         *)
durationMap_shortLunch(type) ==
  CASE type = "WALKING" -> 5
    [] type = "TEA" -> 15
    [] type = "LUNCH" -> 30

durationMap(type) ==
  CASE type = "WALKING" -> 5
    [] type = "TEA" -> 15
    [] type = "LUNCH" -> 60

----------------------------------------------------------------------------
(* Store: the tables of the Prisma migrations.  The attendance table has   *)
(* a plain index on (user_id, date) and no unique constraint, so create    *)
(* always inserts.  A row's id is its position.                            *)

(* Variant: only the records without a check-out are looked up.            *)
findFirstAttendance_openOnly(rows, userId, date) ==
  {i \in DOMAIN rows : /\ rows[i].user_id = userId /\ rows[i].date = date
                       /\ IsNull(rows[i].check_out_time)}

(* Variant: the lookup does not filter on the date.                        *)
findFirstAttendance_anyDate(rows, userId, date) ==
  {i \in DOMAIN rows : rows[i].user_id = userId}

(* prisma.attendance.findFirst({where: {user_id, date}}): the rows that    *)
(* match; the query has no orderBy, so any of them may be returned.        *)
(* Variant: the lookup also matches the records of earlier days.           *)
findFirstAttendance_upTo(rows, userId, date) ==
  {i \in DOMAIN rows : rows[i].user_id = userId /\ rows[i].date <= date}

findFirstAttendance(rows, userId, date) ==
  {i \in DOMAIN rows : rows[i].user_id = userId /\ rows[i].date = date}

(* prisma.attendance.create *)
createAttendance(rows, row) == Append(rows, row)

(* include: { breaks: true } *)
breaksOf(brks, attendanceId) ==
  {b \in DOMAIN brks : brks[b].attendance_id = attendanceId}

(* breaks.find(b => !b.end_time): candidates for the active break *)
activeBreaks(brks, attendanceId) ==
  {b \in breaksOf(brks, attendanceId) : IsNull(brks[b].end_time)}

(* breaks.some(b => b.type === 'LUNCH') *)
lunchTaken(brks, attendanceId) ==
  \E b \in breaksOf(brks, attendanceId) : brks[b].type = "LUNCH"

(* prisma.location.findMany({where: {is_active: true}}) *)
IsActive(loc) == loc.is_active

(* Variant: the query has no filter on is_active.                          *)
findManyActiveLocations_all(locs) == locs

findManyActiveLocations(locs) == SelectSeq(locs, IsActive)

----------------------------------------------------------------------------
(* Request inputs *)

InsidePoint == [lat |-> 1050, lon |-> 0]
OutsidePoint == [lat |-> 1300, lon |-> 0]
InvalidPoint == [lat |-> 91 * UnitsPerDegree, lon |-> 0]
Coords == {InsidePoint, OutsidePoint, InvalidPoint}

BreakTypeInputs == validTypes \cup {"NAP"}
Reports == {"report"}

HeadOffice ==
  [name |-> "Head Office", latitude |-> 1000, longitude |-> 0,
   radius_meters |-> 100, is_active |-> TRUE]

LastInstant == StartInstant + MaxTicks * TickMinutes
LastRaceInstant == StartInstant + MaxRaceTicks * TickMinutes

----------------------------------------------------------------------------
(* Per-request state *)

NoReq ==
  [op |-> "none", user |-> "none", lat |-> 0, lon |-> 0, today |-> 0,
   id |-> 0, time |-> 0, status |-> "none", checkInTime |-> 0,
   type |-> "none", duration |-> 0, location |-> "none", report |-> "none",
   name |-> Null, radius |-> 0]

(* out is the response sent last: request, operation, caller, date key,    *)
(* HTTP status and the error of the rejection.                             *)
NoResp ==
  [proc |-> "none", op |-> "none", user |-> "none", date |-> 0,
   code |-> 0, error |-> "none"]

Response(op, user, date, code, error) ==
  [proc |-> "none", op |-> op, user |-> user, date |-> date,
   code |-> code, error |-> error]

(* res.status(code).json(...); return *)
Reply(p, r) ==
  /\ out' = [r EXCEPT !.proc = p]
  /\ pc' = [pc EXCEPT ![p] = "idle"]
  /\ req' = [req EXCEPT ![p] = NoReq]

(* await: the handler is suspended at the next store call *)
Await(p, label, r) ==
  /\ pc' = [pc EXCEPT ![p] = label]
  /\ req' = [req EXCEPT ![p] = r]
  /\ UNCHANGED out

Init ==
  /\ now \in StartInstants
  /\ tz \in TzOffsets
  /\ cfg \in Configs
  /\ fault = NoFault
  /\ locations = <<HeadOffice>>
  /\ attendance = <<>>
  /\ breaks = <<>>
  /\ pc = [p \in Procs |-> "idle"]
  /\ req = [p \in Procs |-> NoReq]
  /\ out = NoResp
  /\ served = 0

----------------------------------------------------------------------------
(* checkIn *)

CheckInBegin(p, u, c) ==
  /\ pc[p] = "idle"
  /\ UNCHANGED <<now, tz, cfg, fault, locations, attendance, breaks>>
  /\ IF ~validateCoordinates(c.lat, c.lon)
     THEN Reply(p, Response("check_in", u, getUtcMidnight(now, tz), 400, "InvalidCoordinate"))
     ELSE LET today == getUtcMidnight(now, tz)
              existingAttendance == findFirstAttendance(attendance, u, today)
          IN  IF existingAttendance # {}
              THEN Reply(p, Response("check_in", u, today, 400, "AlreadyCheckedIn"))
              ELSE Await(p, "ci_locations",
                         [NoReq EXCEPT !.op = "check_in", !.user = u, !.lat = c.lat,
                                       !.lon = c.lon, !.today = today])

CheckInLocations(p) ==
  /\ pc[p] = "ci_locations"
  /\ UNCHANGED <<now, tz, cfg, fault, locations, attendance, breaks, served>>
  /\ LET r == req[p]
         geoLocations == findManyActiveLocations(locations)
         found == IF Len(geoLocations) = 0 THEN Null
                  ELSE isWithinGeofence(r.lat, r.lon, geoLocations)
         matchingLocation ==
           IF Len(geoLocations) > 0 /\ cfg.SKIP_GEOFENCE /\ IsNull(found)
           THEN Some(geoLocations[1]) ELSE found
         status == classifyCheckIn(getHours(now, tz), getMinutes(now, tz), cfg)
     IN  IF Len(geoLocations) = 0
         THEN Reply(p, Response("check_in", r.user, r.today, 400, "NoLocationsConfigured"))
         ELSE IF IsNull(matchingLocation)
         THEN Reply(p, Response("check_in", r.user, r.today, 400, "OutsideGeofence"))
         ELSE Await(p, "ci_create",
                    [r EXCEPT !.time = now, !.status = status,
                              !.location = Val(matchingLocation).name])

CheckInCreate(p) ==
  /\ pc[p] = "ci_create"
  /\ UNCHANGED <<now, tz, cfg, fault, locations, breaks, served>>
  /\ LET r == req[p]
     IN  /\ attendance' = createAttendance(attendance,
              [user_id |-> r.user, date |-> r.today, check_in_time |-> r.time,
               check_in_lat |-> r.lat, check_in_long |-> r.lon,
               check_out_time |-> Null, check_out_lat |-> Null,
               check_out_long |-> Null, work_done |-> Null, status |-> r.status])
         /\ Await(p, "ci_respond", [r EXCEPT !.id = Len(attendance) + 1])

(* user lookup and notifications, then res.status(201); catch: 500 *)
CheckInRespond(p) ==
  /\ pc[p] = "ci_respond"
  /\ UNCHANGED <<now, tz, cfg, fault, locations, attendance, breaks, served>>
  /\ IF afterWrite(fault) = "rejected"
     THEN Reply(p, Response("check_in", req[p].user, req[p].today, 500, "ServerError"))
     ELSE Reply(p, Response("check_in", req[p].user, req[p].today, 201, "none"))

----------------------------------------------------------------------------
(* checkOut *)

(* Variant: check-out is refused outside every active region.             *)
CheckOutBegin_fenced(p, u, c, report) ==
  /\ pc[p] = "idle"
  /\ UNCHANGED <<now, tz, cfg, fault, locations, attendance, breaks>>
  /\ LET today == getUtcMidnight(now, tz)
         matching == findFirstAttendance(attendance, u, today)
     IN  IF ~validateCoordinates(c.lat, c.lon)
         THEN Reply(p, Response("check_out", u, today, 400, "InvalidCoordinate"))
         ELSE IF matching = {}
         THEN Reply(p, Response("check_out", u, today, 400, "NotCheckedIn"))
         ELSE \E i \in matching :
                LET existingAttendance == attendance[i]
                IN  IF ~IsNull(existingAttendance.check_out_time)
                    THEN Reply(p, Response("check_out", u, today, 400, "AlreadyCheckedOut"))
                    ELSE IF IsNull(isWithinGeofence(c.lat, c.lon,
                                     findManyActiveLocations(locations)))
                    THEN Reply(p, Response("check_out", u, today, 400, "OutsideGeofence"))
                    ELSE Await(p, "co_breaks",
                               [NoReq EXCEPT !.op = "check_out", !.user = u, !.report = report,
                                             !.lat = c.lat, !.lon = c.lon,
                                             !.today = today, !.id = i,
                                             !.status = existingAttendance.status,
                                             !.checkInTime = existingAttendance.check_in_time])


CheckOutBegin(p, u, c, report) ==
  /\ pc[p] = "idle"
  /\ UNCHANGED <<now, tz, cfg, fault, locations, attendance, breaks>>
  /\ LET today == getUtcMidnight(now, tz)
         matching == findFirstAttendance(attendance, u, today)
     IN  IF ~validateCoordinates(c.lat, c.lon)
         THEN Reply(p, Response("check_out", u, today, 400, "InvalidCoordinate"))
         ELSE IF matching = {}
         THEN Reply(p, Response("check_out", u, today, 400, "NotCheckedIn"))
         ELSE \E i \in matching :
                LET existingAttendance == attendance[i]
                IN  IF ~IsNull(existingAttendance.check_out_time)
                    THEN Reply(p, Response("check_out", u, today, 400, "AlreadyCheckedOut"))
                    ELSE Await(p, "co_breaks",
                               [NoReq EXCEPT !.op = "check_out", !.user = u, !.report = report,
                                             !.lat = c.lat, !.lon = c.lon,
                                             !.today = today, !.id = i,
                                             !.status = existingAttendance.status,
                                             !.checkInTime = existingAttendance.check_in_time])

(* Variant: the check-out time is written before the breaks are looked at. *)
CheckOutBreaks_writeFirst(p) ==
  /\ pc[p] = "co_breaks"
  /\ UNCHANGED <<now, tz, cfg, fault, locations, breaks, served>>
  /\ LET r == req[p]
     IN  /\ attendance' = [attendance EXCEPT ![r.id].check_out_time = Some(now)]
         /\ IF activeBreaks(breaks, r.id) # {}
            THEN Reply(p, Response("check_out", r.user, r.today, 400, "BreakStillActive"))
            ELSE Await(p, "co_update",
                       [r EXCEPT !.time = now,
                                 !.status = classifyCheckOut(getHours(now, tz), cfg, r.status)])

(* "Block checkout if user has an active break", then the work hours and   *)
(* the status are computed from the record read by CheckOutBegin.          *)
CheckOutBreaks(p) ==
  /\ pc[p] = "co_breaks"
  /\ UNCHANGED <<now, tz, cfg, fault, locations, attendance, breaks, served>>
  /\ LET r == req[p]
     IN  IF activeBreaks(breaks, r.id) # {}
         THEN Reply(p, Response("check_out", r.user, r.today, 400, "BreakStillActive"))
         ELSE Await(p, "co_update",
                    [r EXCEPT !.time = now,
                              !.status = classifyCheckOut(getHours(now, tz), cfg, r.status)])

(* hoursWorked, in minutes: checkOutTime.getTime() - checkInTime.getTime() *)
hoursWorked(r) == r.time - r.checkInTime

(* prisma.attendance.update({where: {id}, data})                           *)
CheckOutUpdate(p) ==
  /\ pc[p] = "co_update"
  /\ UNCHANGED <<now, tz, cfg, fault, locations, breaks, served>>
  /\ LET r == req[p]
     IN  /\ attendance' = [attendance EXCEPT ![r.id] =
              [@ EXCEPT !.check_out_time = Some(r.time),
                        !.check_out_lat = Some(r.lat),
                        !.check_out_long = Some(r.lon),
                        !.work_done = Some(r.report),
                        !.status = r.status]]
         /\ Await(p, "co_respond", r)

(* user lookup and notifications, then res.json; catch: 500 *)
CheckOutRespond(p) ==
  /\ pc[p] = "co_respond"
  /\ UNCHANGED <<now, tz, cfg, fault, locations, attendance, breaks, served>>
  /\ IF afterWrite(fault) = "rejected"
     THEN Reply(p, Response("check_out", req[p].user, req[p].today, 500, "ServerError"))
     ELSE Reply(p, Response("check_out", req[p].user, req[p].today, 200, "none"))

----------------------------------------------------------------------------
(* startBreak *)

PendingBreaks == Cardinality({q \in Procs : pc[q] = "sb_create"})

StartBreakBegin(p, u, type) ==
  /\ pc[p] = "idle"
  /\ UNCHANGED <<now, tz, cfg, fault, locations, attendance, breaks>>
  /\ LET today == getUtcMidnight(now, tz)
         matching == findFirstAttendance(attendance, u, today)
     IN  IF type \notin validTypes
         THEN Reply(p, Response("start_break", u, today, 400, "InvalidBreakType"))
         ELSE IF matching = {}
         THEN Reply(p, Response("start_break", u, today, 400, "NotCheckedIn"))
         ELSE \E i \in matching :
                IF ~IsNull(attendance[i].check_out_time)
                THEN Reply(p, Response("start_break", u, today, 400, "AlreadyCheckedOut"))
                ELSE IF activeBreaks(breaks, i) # {}
                THEN Reply(p, Response("start_break", u, today, 400, "BreakAlreadyActive"))
                ELSE IF type = "LUNCH" /\ lunchTaken(breaks, i)
                THEN Reply(p, Response("start_break", u, today, 400, "LunchAlreadyTaken"))
                ELSE /\ Len(breaks) + PendingBreaks < MaxBreaks
                     /\ Await(p, "sb_create",
                              [NoReq EXCEPT !.op = "start_break", !.user = u,
                                            !.today = today, !.id = i, !.type = type,
                                            !.duration = durationMap(type)])

(* prisma.break.create; start_time is the column default CURRENT_TIMESTAMP *)
StartBreakCreate(p) ==
  /\ pc[p] = "sb_create"
  /\ UNCHANGED <<now, tz, cfg, fault, locations, attendance, served>>
  /\ LET r == req[p]
     IN  /\ breaks' = Append(breaks,
              [attendance_id |-> r.id, type |-> r.type, duration_min |-> r.duration,
               start_time |-> now, end_time |-> Null])
         /\ Reply(p, Response("start_break", r.user, r.today, 201, "none"))

----------------------------------------------------------------------------
(* endBreak *)

EndBreakBegin(p, u) ==
  /\ pc[p] = "idle"
  /\ UNCHANGED <<now, tz, cfg, fault, locations, attendance, breaks>>
  /\ LET today == getUtcMidnight(now, tz)
         matching == findFirstAttendance(attendance, u, today)
     IN  IF matching = {}
         THEN Reply(p, Response("end_break", u, today, 400, "NotCheckedIn"))
         ELSE \E i \in matching :
                IF activeBreaks(breaks, i) = {}
                THEN Reply(p, Response("end_break", u, today, 400, "NoActiveBreak"))
                ELSE \E b \in activeBreaks(breaks, i) :
                       Await(p, "eb_update",
                             [NoReq EXCEPT !.op = "end_break", !.user = u,
                                           !.today = today, !.id = b, !.time = now])

(* prisma.break.update({where: {id}, data: {end_time}}) *)
EndBreakUpdate(p) ==
  /\ pc[p] = "eb_update"
  /\ UNCHANGED <<now, tz, cfg, fault, locations, attendance, served>>
  /\ LET r == req[p]
     IN  /\ breaks' = [breaks EXCEPT ![r.id] = [@ EXCEPT !.end_time = Some(r.time)]]
         /\ Reply(p, Response("end_break", r.user, r.today, 200, "none"))

----------------------------------------------------------------------------
(* locationController.deleteLocation: soft delete *)

DeleteLocation(id) ==
  /\ id \in DOMAIN locations
  /\ locations[id].is_active
  /\ locations' = [locations EXCEPT ![id] = [@ EXCEPT !.is_active = FALSE]]
  /\ UNCHANGED <<now, tz, cfg, fault, attendance, breaks, pc, req, out, served>>

(* locationController: the comparisons of radius_meters convert a value    *)
(* that is not a number; a comparison with NaN is false.                   *)
toNumber(v) == IF v \in {JsUndefined, JsString} THEN JsNaN ELSE v

Less(a, b) == a # JsNaN /\ b # JsNaN /\ a < b

(* Variant: only the upper bound of the radius is checked.                 *)
radiusOutOfRange_upperOnly(radius_meters) == Less(1000, toNumber(radius_meters))

(* radius_meters < 1 || radius_meters > 1000 *)
radiusOutOfRange(radius_meters) ==
  Less(toNumber(radius_meters), 1) \/ Less(1000, toNumber(radius_meters))

(* radius_meters is an INTEGER column: the client rejects a value that is  *)
(* not an integer number, the rejection is caught and answered with 500.   *)
fitsInteger(v) == typeofNumber(v) /\ v \notin {JsInfinity, JsNegInfinity, JsNaN}

(* const { radius_meters = 50 } = req.body *)
DefaultRadius == 50

(* locationController.createLocation *)
CreateLocation(p, name, latitude, longitude, radius) ==
  /\ pc[p] = "idle"
  /\ UNCHANGED <<now, tz, cfg, fault, attendance, breaks>>
  /\ LET radius_meters == IF radius = JsUndefined THEN DefaultRadius ELSE radius
     IN  IF name = ""
         THEN /\ Reply(p, Response("create_location", "admin", 0, 400, "NameRequired"))
              /\ UNCHANGED locations
         ELSE IF ~validateCoordinates(latitude, longitude)
         THEN /\ Reply(p, Response("create_location", "admin", 0, 400, "InvalidCoordinate"))
              /\ UNCHANGED locations
         ELSE IF radiusOutOfRange(radius_meters)
         THEN /\ Reply(p, Response("create_location", "admin", 0, 400, "InvalidRadius"))
              /\ UNCHANGED locations
         ELSE IF ~fitsInteger(radius_meters)
         THEN /\ Reply(p, Response("create_location", "admin", 0, 500, "ServerError"))
              /\ UNCHANGED locations
         ELSE /\ locations' = Append(locations,
                    [name |-> name, latitude |-> latitude, longitude |-> longitude,
                     radius_meters |-> radius_meters, is_active |-> TRUE])
              /\ Reply(p, Response("create_location", "admin", 0, 201, "none"))

(* locationController.updateLocation: prisma.location.findUnique, then the *)
(* checks of the fields that are present                                   *)
UpdateLocationBegin(p, id, name, latitude, longitude, radius) ==
  /\ pc[p] = "idle"
  /\ UNCHANGED <<now, tz, cfg, fault, locations, attendance, breaks>>
  /\ IF id \notin DOMAIN locations
     THEN Reply(p, Response("update_location", "admin", 0, 404, "NotFound"))
     ELSE IF (latitude # JsUndefined) # (longitude # JsUndefined)
     THEN Reply(p, Response("update_location", "admin", 0, 400, "BothCoordinates"))
     ELSE IF latitude # JsUndefined /\ ~validateCoordinates(latitude, longitude)
     THEN Reply(p, Response("update_location", "admin", 0, 400, "InvalidCoordinate"))
     ELSE IF radius # JsUndefined /\ radiusOutOfRange(radius)
     THEN Reply(p, Response("update_location", "admin", 0, 400, "InvalidRadius"))
     ELSE IF IsNull(name) /\ latitude = JsUndefined /\ radius = JsUndefined
     THEN Reply(p, Response("update_location", "admin", 0, 400, "NoFields"))
     ELSE Await(p, "ul_update",
                [NoReq EXCEPT !.op = "update_location", !.user = "admin", !.id = id,
                              !.name = name, !.lat = latitude, !.lon = longitude,
                              !.radius = radius])

(* prisma.location.update({where: {id}, data: updateData}) *)
UpdateLocationWrite(p) ==
  /\ pc[p] = "ul_update"
  /\ UNCHANGED <<now, tz, cfg, fault, attendance, breaks, served>>
  /\ LET r == req[p]
     IN  IF r.radius # JsUndefined /\ ~fitsInteger(r.radius)
         THEN /\ Reply(p, Response("update_location", "admin", 0, 500, "ServerError"))
              /\ UNCHANGED locations
         ELSE /\ locations' = [locations EXCEPT ![r.id] =
                    [@ EXCEPT !.name = IF IsNull(r.name) THEN @ ELSE Val(r.name),
                              !.latitude = IF r.lat = JsUndefined THEN @ ELSE r.lat,
                              !.longitude = IF r.lon = JsUndefined THEN @ ELSE r.lon,
                              !.radius_meters =
                                 IF r.radius = JsUndefined THEN @ ELSE r.radius]]
              /\ Reply(p, Response("update_location", "admin", 0, 200, "none"))

(* The clock advances *)
Tick(last) ==
  /\ \E d \in Steps : now + d <= last /\ now' = now + d
  /\ UNCHANGED <<tz, cfg, fault, locations, attendance, breaks, pc, req, out, served>>

(* A request arrives: at most limit requests are served in a run *)
Arrive(limit) ==
  /\ served < limit
  /\ served' = served + 1

(* The steps of the requests served by the workers P *)
Accept(P, limit) ==
  \/ \E p \in P, u \in Users, c \in Coords : CheckInBegin(p, u, c) /\ Arrive(limit)
  \/ \E p \in P, u \in Users, c \in Coords, report \in Reports :
        CheckOutBegin(p, u, c, report) /\ Arrive(limit)
  \/ \E p \in P, u \in Users, type \in BreakTypeInputs :
        StartBreakBegin(p, u, type) /\ Arrive(limit)
  \/ \E p \in P, u \in Users : EndBreakBegin(p, u) /\ Arrive(limit)

Continue(P) ==
  \/ \E p \in P : CheckInLocations(p)
  \/ \E p \in P : CheckInCreate(p)
  \/ \E p \in P : CheckInRespond(p)
  \/ \E p \in P : CheckOutBreaks(p)
  \/ \E p \in P : CheckOutUpdate(p)
  \/ \E p \in P : CheckOutRespond(p)
  \/ \E p \in P : StartBreakCreate(p)
  \/ \E p \in P : EndBreakUpdate(p)

(* Concurrent requests: two requests in flight around one instant *)
Next == Accept(Procs, MaxRaceRequests) \/ Continue(Procs) \/ Tick(LastRaceInstant)
Spec == Init /\ [][Next]_vars

(* One request at a time over two days *)
NextDay ==
  \/ Accept({"r1"}, MaxRequests)
  \/ Continue({"r1"})
  \/ \E id \in DOMAIN locations : DeleteLocation(id)
  \/ Tick(LastInstant)
SpecDay == Init /\ [][NextDay]_vars

(* The time-of-day policy: one check-in at any time of day under any       *)
(* configuration of the thresholds.                                        *)
PolicyHours == 0..23
PolicyMinutes == {0, 1, 29, 30, 31, 59}
PolicyConfigs ==
  {[OFFICE_START_HOUR |-> s, LATE_THRESHOLD_MINUTES |-> l,
    HALF_DAY_HOUR |-> h, SKIP_GEOFENCE |-> FALSE] :
      s \in {8, 10}, l \in {0, 30, 60, 90}, h \in {10, 12, 14}}

InitPolicy ==
  /\ now \in {60 * h + m : h \in PolicyHours, m \in PolicyMinutes}
  /\ tz \in TzOffsets
  /\ cfg \in PolicyConfigs
  /\ fault = NoFault
  /\ locations = <<HeadOffice>>
  /\ attendance = <<>>
  /\ breaks = <<>>
  /\ pc = [p \in Procs |-> "idle"]
  /\ req = [p \in Procs |-> NoReq]
  /\ out = NoResp
  /\ served = 0

NextPolicy ==
  \/ \E c \in Coords : CheckInBegin("r1", "u1", c) /\ Arrive(1)
  \/ CheckInLocations("r1")
  \/ CheckInCreate("r1")
  \/ CheckInRespond("r1")
SpecPolicy == InitPolicy /\ [][NextPolicy]_vars

(* A working day: one check-in and one check-out, some hours apart, under  *)
(* several settings of the office hours.                                   *)
MaxShiftTicks == 2
ShiftInstants == {60 * h + m : h \in 8..13, m \in {0, 30}}
LastShiftInstant == 13 * 60 + 30 + MaxShiftTicks * TickMinutes
ShiftConfigs ==
  {[OFFICE_START_HOUR |-> s, LATE_THRESHOLD_MINUTES |-> 60,
    HALF_DAY_HOUR |-> h, SKIP_GEOFENCE |-> FALSE] : s \in {8, 10}, h \in {12, 14}}

InitShift ==
  /\ now \in ShiftInstants
  /\ tz \in TzOffsets
  /\ cfg \in ShiftConfigs
  /\ fault = NoFault
  /\ locations = <<HeadOffice>>
  /\ attendance = <<>>
  /\ breaks = <<>>
  /\ pc = [p \in Procs |-> "idle"]
  /\ req = [p \in Procs |-> NoReq]
  /\ out = NoResp
  /\ served = 0

NextShift ==
  \/ \E c \in Coords : CheckInBegin("r1", "u1", c) /\ Arrive(1)
  \/ CheckInLocations("r1")
  \/ CheckInCreate("r1")
  \/ CheckInRespond("r1")
  \/ \E c \in Coords, report \in Reports :
        CheckOutBegin("r1", "u1", c, report) /\ Arrive(2)
  \/ CheckOutBreaks("r1")
  \/ CheckOutUpdate("r1")
  \/ CheckOutRespond("r1")
  \/ Tick(LastShiftInstant)
SpecShift == InitShift /\ [][NextShift]_vars

(* Servers in several time zones: the process's local time is UTC, UTC     *)
(* +05:30 or UTC -10:00.                                                   *)
MaxZoneRequests == 3
ZoneOffsets == {0, 330, 0 - 600}

InitZone ==
  /\ now \in StartInstants
  /\ tz \in ZoneOffsets
  /\ cfg \in Configs
  /\ fault = NoFault
  /\ locations = <<HeadOffice>>
  /\ attendance = <<>>
  /\ breaks = <<>>
  /\ pc = [p \in Procs |-> "idle"]
  /\ req = [p \in Procs |-> NoReq]
  /\ out = NoResp
  /\ served = 0

NextZone ==
  \/ Accept({"r1"}, MaxZoneRequests)
  \/ Continue({"r1"})
  \/ Tick(LastInstant)
SpecZone == InitZone /\ [][NextZone]_vars

(* Requests served while one store call of the tail of the handlers fails  *)
MaxFaultRequests == 3

InitFault ==
  /\ now \in StartInstants
  /\ tz \in TzOffsets
  /\ cfg \in Configs
  /\ fault \in Faults
  /\ locations = <<HeadOffice>>
  /\ attendance = <<>>
  /\ breaks = <<>>
  /\ pc = [p \in Procs |-> "idle"]
  /\ req = [p \in Procs |-> NoReq]
  /\ out = NoResp
  /\ served = 0

NextFault ==
  \/ Accept({"r1"}, MaxFaultRequests)
  \/ Continue({"r1"})
  \/ Tick(LastRaceInstant)
SpecFault == InitFault /\ [][NextFault]_vars

(* The geofence: one check-in and one check-out from points on the        *)
(* meridian of the offices and on the bounds of the coordinate ranges,    *)
(* with every list of at most two of four regions.                         *)
Annex ==
  [name |-> "Annex", latitude |-> 1100, longitude |-> 0,
   radius_meters |-> 200, is_active |-> TRUE]
Kiosk ==
  [name |-> "Kiosk", latitude |-> 5000, longitude |-> 0,
   radius_meters |-> 1, is_active |-> TRUE]
OldOffice ==
  [name |-> "Old Office", latitude |-> 2000, longitude |-> 0,
   radius_meters |-> 100, is_active |-> FALSE]

GeoRegions == {HeadOffice, Annex, Kiosk, OldOffice}
RegionLists ==
  {<<>>} \cup {<<a>> : a \in GeoRegions}
         \cup {l \in {<<a, b>> : a \in GeoRegions, b \in GeoRegions} : l[1] # l[2]}

FenceLatitudes ==
  {1000, 1010, 1090, 1099, 1100, 1101, 1301, 2000, 4998, 4999, 5000, 5001, 5002}
LatitudeInputs ==
  {(0 - 90) * UnitsPerDegree - 1, (0 - 90) * UnitsPerDegree, 0,
   90 * UnitsPerDegree, 90 * UnitsPerDegree + 1,
   JsInfinity, JsNegInfinity, JsNaN, JsUndefined, JsString}
LongitudeInputs ==
  {(0 - 180) * UnitsPerDegree - 1, (0 - 180) * UnitsPerDegree,
   180 * UnitsPerDegree, 180 * UnitsPerDegree + 1,
   JsInfinity, JsNegInfinity, JsNaN, JsUndefined, JsString}
GeoCoords ==
  {[lat |-> a, lon |-> 0] : a \in FenceLatitudes \cup LatitudeInputs}
    \cup {[lat |-> 0, lon |-> b] : b \in LongitudeInputs}
    \cup {[lat |-> 90 * UnitsPerDegree, lon |-> 180 * UnitsPerDegree],
          [lat |-> (0 - 90) * UnitsPerDegree, lon |-> (0 - 180) * UnitsPerDegree]}

GeoConfigs == {DefaultConfig, [DefaultConfig EXCEPT !.SKIP_GEOFENCE = TRUE]}

InitGeo ==
  /\ now \in StartInstants
  /\ tz \in TzOffsets
  /\ cfg \in GeoConfigs
  /\ fault = NoFault
  /\ locations \in RegionLists
  /\ attendance = <<>>
  /\ breaks = <<>>
  /\ pc = [p \in Procs |-> "idle"]
  /\ req = [p \in Procs |-> NoReq]
  /\ out = NoResp
  /\ served = 0

NextGeo ==
  \/ \E c \in GeoCoords : CheckInBegin("r1", "u1", c) /\ Arrive(1)
  \/ CheckInLocations("r1")
  \/ CheckInCreate("r1")
  \/ CheckInRespond("r1")
  \/ \E c \in GeoCoords, report \in Reports :
        CheckOutBegin("r1", "u1", c, report) /\ Arrive(2)
  \/ CheckOutBreaks("r1")
  \/ CheckOutUpdate("r1")
  \/ CheckOutRespond("r1")
SpecGeo == InitGeo /\ [][NextGeo]_vars

(* The administration of the regions: create, update and delete requests,  *)
(* one at a time; a delete may fall between the two steps of an update.    *)
MaxLocRequests == 2
LocationNames == {"", "Depot"}
LocationNameUpdates == {Null, Some("Depot")}
LocationPoints ==
  {[lat |-> 90 * UnitsPerDegree, lon |-> (0 - 180) * UnitsPerDegree],
   [lat |-> 90 * UnitsPerDegree + 1, lon |-> 0],
   [lat |-> 0, lon |-> 180 * UnitsPerDegree + 1],
   [lat |-> JsString, lon |-> 0],
   [lat |-> 0, lon |-> JsUndefined],
   [lat |-> JsUndefined, lon |-> JsUndefined]}
RadiusInputs == {JsUndefined, JsString, 0, 1, 1000, 1001}

NextLoc ==
  \/ \E name \in LocationNames, c \in LocationPoints, radius \in RadiusInputs :
        CreateLocation("r1", name, c.lat, c.lon, radius) /\ Arrive(MaxLocRequests)
  \/ \E id \in 1..(Len(locations) + 1), name \in LocationNameUpdates,
         c \in LocationPoints, radius \in RadiusInputs :
        UpdateLocationBegin("r1", id, name, c.lat, c.lon, radius)
          /\ Arrive(MaxLocRequests)
  \/ UpdateLocationWrite("r1")
  \/ \E id \in DOMAIN locations : DeleteLocation(id)
SpecLoc == Init /\ [][NextLoc]_vars

----------------------------------------------------------------------------
(* Vocabulary of the properties *)

Today == getUtcMidnight(now, tz)

DaysOf(u, d) ==
  {i \in DOMAIN attendance : attendance[i].user_id = u /\ attendance[i].date = d}

HasDay(u, d) == DaysOf(u, d) # {}

OpenBreaksOn(i) ==
  {b \in DOMAIN breaks : breaks[b].attendance_id = i /\ breaks[b].end_time = Null}

LunchesOn(i) ==
  {b \in DOMAIN breaks : breaks[b].attendance_id = i /\ breaks[b].type = "LUNCH"}

ValidPoints == {InsidePoint, OutsidePoint}

(* Request p is answered in this step with a 400 and the given error, and  *)
(* no record changes.                                                      *)
Rejected(p, op, u, error) ==
  /\ pc'[p] = "idle"
  /\ out'.proc = p /\ out'.op = op /\ out'.user = u
  /\ out'.code = 400 /\ out'.error = error
  /\ UNCHANGED <<attendance, breaks>>

InFlightCheckIn(p) == pc[p] \in {"ci_locations", "ci_create", "ci_respond"}

----------------------------------------------------------------------------
(* C1: the store holds at most one AttendanceDay per (user_id, date),      *)
(* whatever the interleaving of the check-in requests.                     *)
C1_OneDayPerUserDate ==
  \A i, j \in DOMAIN attendance :
    (attendance[i].user_id = attendance[j].user_id
       /\ attendance[i].date = attendance[j].date) => i = j

(* C2: of the check-in requests for one (user, date) that run concurrently *)
(* from inside a geofence, one returns success and every other one returns *)
(* AlreadyCheckedIn: a request that was in flight when another request's   *)
(* check-in for the same (user, date) returned success is answered with    *)
(* AlreadyCheckedIn.                                                       *)
C2_OneSuccessOthersAlreadyCheckedIn ==
  [][\A p \in Procs :
       (/\ InFlightCheckIn(p) /\ pc'[p] = "idle"
        /\ req[p].lat = InsidePoint.lat /\ req[p].lon = InsidePoint.lon
        /\ out.op = "check_in" /\ out.code = 201 /\ out.proc # p
        /\ out.user = req[p].user /\ out.date = req[p].today)
       => (out'.proc = p /\ out'.code = 400 /\ out'.error = "AlreadyCheckedIn")]_vars

(* C3, as claimed: a check-in for a (user, date) that already has an       *)
(* AttendanceDay fails with AlreadyCheckedIn whatever its coordinates, and *)
(* changes no record.                                                      *)
C3_SecondCheckInAlwaysAlreadyCheckedIn ==
  [][\A p \in Procs, u \in Users, c \in Coords :
       (HasDay(u, Today) /\ CheckInBegin(p, u, c))
       => Rejected(p, "check_in", u, "AlreadyCheckedIn")]_vars

(* C3, amended: a check-in for a (user, date) that already has an          *)
(* AttendanceDay changes no record; it fails with AlreadyCheckedIn         *)
(* whatever its valid coordinates (inside or outside the regions) and its  *)
(* time, and with InvalidCoordinate when its coordinates are invalid.      *)
C3_SecondCheckInRejected ==
  [][\A p \in Procs, u \in Users, c \in Coords :
       (HasDay(u, Today) /\ CheckInBegin(p, u, c))
       => IF c \in ValidPoints
          THEN Rejected(p, "check_in", u, "AlreadyCheckedIn")
          ELSE Rejected(p, "check_in", u, "InvalidCoordinate")]_vars

C3_Witness ==
  /\ out.op = "check_in" /\ out.error = "AlreadyCheckedIn"
  /\ \E i \in DaysOf(out.user, out.date) :
       /\ attendance[i].check_in_time < now
       /\ attendance[i].check_in_lat = InsidePoint.lat

(* C4: every AttendanceDay has at most one open break.                     *)
C4_AtMostOneOpenBreak ==
  \A i \in DOMAIN attendance : Cardinality(OpenBreaksOn(i)) <= 1

(* C5: every AttendanceDay has at most one LUNCH break, open or closed.    *)
C5_AtMostOneLunch ==
  \A i \in DOMAIN attendance : Cardinality(LunchesOn(i)) <= 1

(* C6: while the user has an open break today, check-out fails with        *)
(* BreakStillActive and sets no check_out_time; with no open break it goes *)
(* on to set check_out_time and answers 200.                               *)
UserOnBreak(u, d) == \E i \in DaysOf(u, d) : OpenBreaksOn(i) # {}

C6_CheckOutWaitsForBreak ==
  [][\A p \in Procs :
       /\ (pc[p] = "co_breaks" /\ pc'[p] # "co_breaks")
          => IF UserOnBreak(req[p].user, req[p].today)
             THEN Rejected(p, "check_out", req[p].user, "BreakStillActive")
             ELSE pc'[p] = "co_update"
       /\ (pc[p] = "co_update" /\ pc'[p] # "co_update")
          => attendance'[req[p].id].check_out_time # Null
       /\ (pc[p] = "co_respond" /\ pc'[p] # "co_respond")
          => (out'.proc = p /\ out'.code = 200)]_vars

(* C7: once a check-out of (user, date) has succeeded, every later request *)
(* of that user on that date is rejected and changes nothing: check-in     *)
(* with AlreadyCheckedIn, check-out and start-break with AlreadyCheckedOut,*)
(* end-break with NoActiveBreak.                                           *)
CheckedOut(u, d) ==
  \E i \in DaysOf(u, d) :
    /\ attendance[i].check_out_time # Null
    /\ \A q \in Procs : ~(pc[q] = "co_respond" /\ req[q].id = i)

C7_CheckedOutIsTerminal ==
  [][\A p \in Procs, u \in Users :
       CheckedOut(u, Today) =>
         /\ \A c \in ValidPoints :
              CheckInBegin(p, u, c) => Rejected(p, "check_in", u, "AlreadyCheckedIn")
         /\ \A c \in ValidPoints, r \in Reports :
              CheckOutBegin(p, u, c, r) => Rejected(p, "check_out", u, "AlreadyCheckedOut")
         /\ \A t \in validTypes :
              StartBreakBegin(p, u, t) => Rejected(p, "start_break", u, "AlreadyCheckedOut")
         /\ EndBreakBegin(p, u) => Rejected(p, "end_break", u, "NoActiveBreak")]_vars

(* C8: for a user with no AttendanceDay today, start-break with a valid    *)
(* type, end-break and check-out with valid coordinates fail with          *)
(* NotCheckedIn and create no AttendanceDay and no Break.                  *)
C8_NotCheckedIn ==
  [][\A p \in Procs, u \in Users :
       ~HasDay(u, Today) =>
         /\ \A t \in validTypes :
              StartBreakBegin(p, u, t) => Rejected(p, "start_break", u, "NotCheckedIn")
         /\ EndBreakBegin(p, u) => Rejected(p, "end_break", u, "NotCheckedIn")
         /\ \A c \in ValidPoints, r \in Reports :
              CheckOutBegin(p, u, c, r) => Rejected(p, "check_out", u, "NotCheckedIn")]_vars

C8_Witness ==
  /\ out.error = "NotCheckedIn" /\ out.op = "check_out"
  /\ ~HasDay(out.user, out.date)
  /\ \E i \in DOMAIN attendance :
       attendance[i].user_id = out.user /\ attendance[i].date < out.date

(* C9: the status of an AttendanceDay changes only at check-out and only   *)
(* to HALF_DAY: HALF_DAY never becomes PRESENT or LATE, LATE never becomes *)
(* PRESENT, and starting or ending a break never changes it.               *)
C9_StatusOnlyUpgrades ==
  [][\A i \in DOMAIN attendance :
       attendance'[i].status # attendance[i].status
       => /\ attendance'[i].status = "HALF_DAY"
          /\ \E p \in Procs :
               pc[p] = "co_update" /\ req[p].id = i /\ pc'[p] = "co_respond"]_vars

(* C10: the status stored by check-in is HALF_DAY when the time of day is  *)
(* strictly after half_day_hour:00, else LATE when it is strictly after    *)
(* office_start_hour:00 plus late_threshold_minutes, else PRESENT; with    *)
(* (10, 60, 14): 09:00 and 11:00 PRESENT, 11:30 and 14:00 LATE, 14:30      *)
(* HALF_DAY.                                                               *)
MinuteOfDay(t) == (t + tz) % MinutesPerDay

ClaimedCheckInStatus(t, c) ==
  IF MinuteOfDay(t) > 60 * c.HALF_DAY_HOUR THEN "HALF_DAY"
  ELSE IF MinuteOfDay(t) > 60 * c.OFFICE_START_HOUR + c.LATE_THRESHOLD_MINUTES
       THEN "LATE"
       ELSE "PRESENT"

ExampleStatus(m) ==
  CASE m = 9 * 60 -> "PRESENT"
    [] m = 11 * 60 -> "PRESENT"
    [] m = 11 * 60 + 30 -> "LATE"
    [] m = 14 * 60 -> "LATE"
    [] m = 14 * 60 + 30 -> "HALF_DAY"

ExampleMinutes == {9 * 60, 11 * 60, 11 * 60 + 30, 14 * 60, 14 * 60 + 30}

C10_CheckInStatus ==
  \A i \in DOMAIN attendance :
    /\ attendance[i].status = ClaimedCheckInStatus(attendance[i].check_in_time, cfg)
    /\ (cfg = DefaultConfig /\ MinuteOfDay(attendance[i].check_in_time) \in ExampleMinutes)
       => attendance[i].status = ExampleStatus(MinuteOfDay(attendance[i].check_in_time))

C10_Witness ==
  /\ cfg.LATE_THRESHOLD_MINUTES = 90
  /\ \E i \in DOMAIN attendance :
       /\ attendance[i].status = "LATE"
       /\ MinuteOfDay(attendance[i].check_in_time)
            = 60 * cfg.OFFICE_START_HOUR + cfg.LATE_THRESHOLD_MINUTES + 1

(* C11: the status stored by check-out is HALF_DAY when the hour of the    *)
(* check-out time is strictly before half_day_hour, and otherwise the      *)
(* status the record had from check-in, whatever the time worked; with     *)
(* half_day_hour = 14, 13:00 on a PRESENT day gives HALF_DAY and 15:00 on  *)
(* a LATE day gives LATE.                                                  *)
C11_CheckOutStatus ==
  [][\A p \in Procs :
       (pc[p] = "co_update" /\ pc'[p] = "co_respond") =>
         LET i == req[p].id
             before == attendance[i].status
             after == attendance'[i].status
             t == Val(attendance'[i].check_out_time)
         IN  /\ after = IF MinuteOfDay(t) < 60 * cfg.HALF_DAY_HOUR
                         THEN "HALF_DAY" ELSE before
             /\ (cfg.HALF_DAY_HOUR = 14 /\ MinuteOfDay(t) = 13 * 60 /\ before = "PRESENT")
                => after = "HALF_DAY"
             /\ (cfg.HALF_DAY_HOUR = 14 /\ MinuteOfDay(t) = 15 * 60 /\ before = "LATE")
                => after = "LATE"]_vars

C11_Witness ==
  /\ cfg.HALF_DAY_HOUR = 14
  /\ out.op = "check_out" /\ out.code = 200
  /\ \E i \in DOMAIN attendance :
       /\ attendance[i].check_out_time # Null
       /\ MinuteOfDay(Val(attendance[i].check_out_time)) = 15 * 60
       /\ attendance[i].status = "LATE"
       /\ Val(attendance[i].check_out_time) - attendance[i].check_in_time = TickMinutes

(* C12: whatever the server's time zone, the date key that check-in,      *)
(* start-break, end-break and check-out use for lookup and creation is the *)
(* UTC calendar day of the request instant, so a check-out made on the UTC *)
(* day of the user's check-in finds that record.                           *)
UtcDay(t) == t \div MinutesPerDay

DateKeyUsed(p) == IF pc[p] = "idle" THEN out.date ELSE req[p].today

(* u has a check-in made on UTC day d: a record whose check_in_time is on  *)
(* day d and on the local day its date key was taken from.                 *)
CheckedInOnUtcDay(u, d) ==
  \E i \in DOMAIN attendance :
    /\ attendance[i].user_id = u
    /\ UtcDay(attendance[i].check_in_time) = d
    /\ attendance[i].date = getDate(attendance[i].check_in_time, tz)

C12_DateKeyIsUtcDay ==
  [][\A p \in Procs, u \in Users :
       /\ \A c \in ValidPoints :
            CheckInBegin(p, u, c) => DateKeyUsed(p)' = UtcDay(now)
       /\ \A t \in validTypes :
            StartBreakBegin(p, u, t) => DateKeyUsed(p)' = UtcDay(now)
       /\ EndBreakBegin(p, u) => DateKeyUsed(p)' = UtcDay(now)
       /\ \A c \in ValidPoints, r \in Reports :
            CheckOutBegin(p, u, c, r) =>
              /\ DateKeyUsed(p)' = UtcDay(now)
              /\ CheckedInOnUtcDay(u, UtcDay(now))
                 => ~Rejected(p, "check_out", u, "NotCheckedIn")]_vars

(* C13: when the notification dispatch of a check-in or a check-out fails  *)
(* (the recipient query of notifyUsersByRole or notifyTeamLead, or         *)
(* createNotification for a recipient), the AttendanceDay written by the   *)
(* request stays as written and the request answers success: 201 for       *)
(* check-in, 200 for check-out.                                            *)
C13_NotificationFailureIsSwallowed ==
  [][\A p \in Procs :
       fault \in NotificationFaults =>
         /\ (pc[p] = "ci_respond" /\ pc'[p] # "ci_respond") =>
               /\ out'.proc = p /\ out'.op = "check_in" /\ out'.code = 201
               /\ attendance' = attendance
               /\ attendance[req[p].id].user_id = req[p].user
               /\ attendance[req[p].id].date = req[p].today
         /\ (pc[p] = "co_respond" /\ pc'[p] # "co_respond") =>
               /\ out'.proc = p /\ out'.op = "check_out" /\ out'.code = 200
               /\ attendance' = attendance
               /\ attendance[req[p].id].check_out_time = Some(req[p].time)]_vars

C13_Witness ==
  /\ fault \in NotificationFaults
  /\ out.op = "check_out" /\ out.code = 200
  /\ \E i \in DaysOf(out.user, out.date) : attendance[i].check_out_time # Null

(* C14: a check-in, check-out, start-break or end-break request that is    *)
(* answered with a 400 leaves every AttendanceDay and every Break as it    *)
(* was: the step that rejects writes nothing, and it is taken before any   *)
(* write of the request (from the request's first step, or from a step     *)
(* that only followed reads).                                              *)
Answers(p) == pc'[p] = "idle" /\ out'.proc = p /\ (pc[p] # "idle" \/ served' # served)

C14_RejectionChangesNothing ==
  [][\A p \in Procs :
       /\ (Answers(p) /\ out'.code = 400) =>
            /\ UNCHANGED <<attendance, breaks>>
            /\ pc[p] \in {"idle", "ci_locations", "co_breaks"}
       /\ (pc'[p] # pc[p] /\ pc'[p] \in {"ci_locations", "co_breaks"}) =>
            UNCHANGED <<attendance, breaks>>]_vars

C14_Witness ==
  /\ out.op = "check_out" /\ out.code = 400 /\ out.error = "BreakStillActive"
  /\ \E i \in DaysOf(out.user, out.date) :
       attendance[i].check_out_time = Null /\ OpenBreaksOn(i) # {}

----------------------------------------------------------------------------
(* Vocabulary of the geofence properties *)

IsFiniteNumber(v) == v \notin {JsInfinity, JsNegInfinity, JsNaN, JsUndefined, JsString}

(* lat in [-90, 90] and lon in [-180, 180], both finite numbers *)
InRanges(c) ==
  /\ IsFiniteNumber(c.lat) /\ IsFiniteNumber(c.lon)
  /\ c.lat \in ((0 - 90) * UnitsPerDegree)..(90 * UnitsPerDegree)
  /\ c.lon \in ((0 - 180) * UnitsPerDegree)..(180 * UnitsPerDegree)

ValidGeoCoords == {c \in GeoCoords : InRanges(c)}

PointOf(p) == [lat |-> req[p].lat, lon |-> req[p].lon]

DistanceTo(c, loc) == calculateDistance(c.lat, c.lon, loc.latitude, loc.longitude)

InRange(c, loc) == DistanceTo(c, loc) <= loc.radius_meters

ActiveRegions == SelectSeq(locations, IsActive)

FirstInRange(c, locs) ==
  LET hits == {i \in DOMAIN locs : InRange(c, locs[i])}
  IN  IF hits = {} THEN Null
      ELSE Some(locs[CHOOSE i \in hits : \A j \in hits : i <= j])

LeavesGeofenceStep(p) == pc[p] = "ci_locations" /\ pc'[p] # "ci_locations"

(* C15: for every point and every ordered list of regions the evaluator    *)
(* returns the first region, in list order, whose distance to the point is *)
(* at most its radius, also when a later region is nearer, and null when   *)
(* no region is in range or the list is empty; check-in is admitted at     *)
(* that region.                                                            *)
C15_FirstMatchInListOrder ==
  [][/\ \A c \in ValidGeoCoords :
          /\ isWithinGeofence(c.lat, c.lon, locations) = FirstInRange(c, locations)
          /\ isWithinGeofence(c.lat, c.lon, <<>>) = Null
     /\ \A p \in Procs :
          (LeavesGeofenceStep(p) /\ ~cfg.SKIP_GEOFENCE /\ Len(ActiveRegions) > 0) =>
            LET first == FirstInRange(PointOf(p), ActiveRegions)
            IN  IF first = Null
                THEN Rejected(p, "check_in", req[p].user, "OutsideGeofence")
                ELSE pc'[p] = "ci_create" /\ req'[p].location = Val(first).name]_vars

C15_Witness ==
  \E p \in Procs :
    /\ pc[p] = "ci_create" /\ ~cfg.SKIP_GEOFENCE
    /\ Len(locations) = 2 /\ locations[1].is_active /\ locations[2].is_active
    /\ req[p].location = locations[1].name
    /\ DistanceTo(PointOf(p), locations[2]) < DistanceTo(PointOf(p), locations[1])

(* C16: with a single region of radius r >= 1, a point at d metres from    *)
(* its centre is matched if and only if d <= r: matched at d = 0, r - 1    *)
(* and r, not matched at d = r + 1.                                        *)
C16_MatchIffWithinRadius ==
  [][(Len(locations) = 1 /\ locations[1].is_active /\ locations[1].radius_meters >= 1) =>
       LET region == locations[1]
           r == region.radius_meters
       IN  /\ \A d \in {0, r - 1, r, r + 1} :
                (isWithinGeofence(region.latitude + d, region.longitude, locations) # Null)
                  <=> d <= r
           /\ \A p \in Procs :
                (LeavesGeofenceStep(p) /\ ~cfg.SKIP_GEOFENCE
                   /\ req[p].lon = region.longitude) =>
                  LET d == Abs(req[p].lat - region.latitude)
                  IN  IF d <= r
                      THEN pc'[p] = "ci_create" /\ req'[p].location = region.name
                      ELSE Rejected(p, "check_in", req[p].user, "OutsideGeofence")]_vars

C16_Witness ==
  \E p \in Procs :
    /\ pc[p] = "ci_create" /\ ~cfg.SKIP_GEOFENCE
    /\ Len(locations) = 1 /\ locations[1].radius_meters = 1
    /\ Abs(req[p].lat - locations[1].latitude) = locations[1].radius_meters

(* C17: validateCoordinates is false for every pair with lat outside       *)
(* [-90, 90], lon outside [-180, 180] or a value that is not a finite      *)
(* number, and true for every other pair, the bounds included; check-in    *)
(* and check-out answer InvalidCoordinate exactly for the pairs it rejects.*)
C17_ValidateCoordinates ==
  [][/\ \A c \in GeoCoords : validateCoordinates(c.lat, c.lon) <=> InRanges(c)
     /\ validateCoordinates(90 * UnitsPerDegree, 180 * UnitsPerDegree)
     /\ validateCoordinates((0 - 90) * UnitsPerDegree, (0 - 180) * UnitsPerDegree)
     /\ \A p \in Procs, u \in Users, c \in GeoCoords :
          /\ CheckInBegin(p, u, c) =>
               (Rejected(p, "check_in", u, "InvalidCoordinate") <=> ~InRanges(c))
          /\ \A r \in Reports :
               CheckOutBegin(p, u, c, r) =>
                 (Rejected(p, "check_out", u, "InvalidCoordinate") <=> ~InRanges(c))]_vars

C17_Witness ==
  /\ out.op = "check_out" /\ out.error = "InvalidCoordinate"
  /\ \E i \in DOMAIN attendance : attendance[i].check_in_lat = 90 * UnitsPerDegree

(* C18: a check-in with valid coordinates by a user with no record today   *)
(* fails with NoLocationsConfigured when no region is active, fails with   *)
(* OutsideGeofence when active regions exist, none contains the point and  *)
(* skip_geofence is off, and never fails with OutsideGeofence when         *)
(* skip_geofence is on; it is admitted only at an active region, and the   *)
(* failing cases create no AttendanceDay.                                  *)
C18_CheckInGeofenceOutcome ==
  [][\A p \in Procs :
       LeavesGeofenceStep(p) =>
         LET containing == {i \in DOMAIN ActiveRegions :
                              InRange(PointOf(p), ActiveRegions[i])}
             names == {ActiveRegions[i].name : i \in DOMAIN ActiveRegions}
         IN  /\ Len(ActiveRegions) = 0
                => Rejected(p, "check_in", req[p].user, "NoLocationsConfigured")
             /\ (Len(ActiveRegions) > 0 /\ containing = {} /\ ~cfg.SKIP_GEOFENCE)
                => Rejected(p, "check_in", req[p].user, "OutsideGeofence")
             /\ cfg.SKIP_GEOFENCE => out'.error # "OutsideGeofence"
             /\ pc'[p] = "ci_create"
                => /\ req'[p].location \in names
                   /\ containing # {} \/ cfg.SKIP_GEOFENCE
             /\ pc'[p] # "ci_create" => UNCHANGED attendance]_vars

C18_Witness ==
  /\ out.op = "check_in" /\ out.error = "NoLocationsConfigured"
  /\ locations = <<OldOffice>> /\ cfg.SKIP_GEOFENCE
  /\ attendance = <<>>

(* C19: every Break has the duration_min of its type (WALKING 5, TEA 15,   *)
(* LUNCH 60); it is created open, on the AttendanceDay of the caller for   *)
(* the date key of the request; its type and duration_min never change;    *)
(* and a start-break with a type outside WALKING, TEA, LUNCH is rejected   *)
(* and creates nothing.                                                    *)
FixedDuration(type) ==
  CASE type = "WALKING" -> 5
    [] type = "TEA" -> 15
    [] type = "LUNCH" -> 60

C19_BreakDuration ==
  [][/\ \A b \in DOMAIN breaks' :
          /\ breaks'[b].type \in {"WALKING", "TEA", "LUNCH"}
          /\ breaks'[b].duration_min = FixedDuration(breaks'[b].type)
     /\ \A b \in DOMAIN breaks :
          /\ b \in DOMAIN breaks'
          /\ breaks'[b].type = breaks[b].type
          /\ breaks'[b].duration_min = breaks[b].duration_min
          /\ breaks'[b].attendance_id = breaks[b].attendance_id
     /\ \A b \in DOMAIN breaks' \ DOMAIN breaks :
          /\ breaks'[b].end_time = Null
          /\ \E p \in Procs :
               /\ pc[p] = "sb_create" /\ pc'[p] = "idle"
               /\ out'.proc = p /\ out'.code = 201
               /\ breaks'[b].type = req[p].type
               /\ attendance[breaks'[b].attendance_id].user_id = req[p].user
               /\ attendance[breaks'[b].attendance_id].date = req[p].today
     /\ \A p \in Procs, u \in Users, t \in BreakTypeInputs \ {"WALKING", "TEA", "LUNCH"} :
          StartBreakBegin(p, u, t) => Rejected(p, "start_break", u, "InvalidBreakType")]_vars

C19_Witness ==
  /\ \E b \in DOMAIN breaks :
       /\ breaks[b].type = "LUNCH" /\ breaks[b].duration_min = 60
       /\ breaks[b].end_time # Null
  /\ \E b \in DOMAIN breaks : breaks[b].type = "TEA" /\ breaks[b].duration_min = 15

(* C20: no AttendanceDay has check_out_time set while one of its breaks is *)
(* open, also when start-break and check-out of one user run concurrently. *)
C20_NoOpenBreakAfterCheckOut ==
  \A i \in DOMAIN attendance :
    attendance[i].check_out_time # Null => OpenBreaksOn(i) = {}

(* C21: two concurrent check-outs of one (user, date) are serialised: a    *)
(* check-out in flight on a record that another request has checked out    *)
(* fails with AlreadyCheckedOut, and the check_out_time, coordinates,      *)
(* report and status of a checked-out record are never written again.      *)
InFlightCheckOut(p) == pc[p] \in {"co_breaks", "co_update"}

C21_CheckOutsSerialised ==
  [][/\ \A i \in DOMAIN attendance :
          attendance[i].check_out_time # Null => attendance'[i] = attendance[i]
     /\ \A p \in Procs :
          (InFlightCheckOut(p) /\ pc'[p] # pc[p]
             /\ attendance[req[p].id].check_out_time # Null)
          => Rejected(p, "check_out", req[p].user, "AlreadyCheckedOut")]_vars

(* C22: once the end_time of a Break is set, no operation changes it, a    *)
(* repeated end-break and concurrent end-breaks of one user included.      *)
C22_EndTimeImmutable ==
  [][\A b \in DOMAIN breaks :
       breaks[b].end_time # Null => breaks'[b].end_time = breaks[b].end_time]_vars

(* C23: end-break closes the open break of the caller's AttendanceDay of   *)
(* today with end_time = the instant the handler reads, changes no other   *)
(* Break and no field of an AttendanceDay; when today's record has no open *)
(* break it fails with NoActiveBreak and changes nothing.                  *)
OpenBreaksOfUser(u, d) == UNION {OpenBreaksOn(i) : i \in DaysOf(u, d)}

C23_EndBreakClosesOpenBreak ==
  [][\A p \in Procs, u \in Users :
       /\ (HasDay(u, Today) /\ EndBreakBegin(p, u)) =>
            IF OpenBreaksOfUser(u, Today) = {}
            THEN Rejected(p, "end_break", u, "NoActiveBreak")
            ELSE /\ pc'[p] = "eb_update"
                 /\ req'[p].id \in OpenBreaksOfUser(u, Today)
                 /\ req'[p].time = now
                 /\ UNCHANGED <<attendance, breaks>>
       /\ (pc[p] = "eb_update" /\ pc'[p] # "eb_update") =>
            /\ out'.proc = p /\ out'.op = "end_break" /\ out'.code = 200
            /\ breaks[req[p].id].end_time = Null
            /\ breaks' = [breaks EXCEPT ![req[p].id].end_time = Some(req[p].time)]
            /\ UNCHANGED attendance]_vars

(* C24: every AttendanceDay with a check_out_time has check_out_time       *)
(* strictly greater than check_in_time, and the hours worked that          *)
(* check-out reports are check_out_time minus check_in_time, breaks not    *)
(* subtracted.                                                             *)
C24_CheckOutAfterCheckIn ==
  [][/\ \A i \in DOMAIN attendance' :
          attendance'[i].check_out_time # Null
          => Val(attendance'[i].check_out_time) > attendance'[i].check_in_time
     /\ \A p \in Procs :
          (pc[p] = "co_update" /\ pc'[p] = "co_respond") =>
            hoursWorked(req'[p])
              = Val(attendance'[req[p].id].check_out_time)
                  - attendance'[req[p].id].check_in_time]_vars

(* C25: the allowed duration of each break is enforced: no Break is open,  *)
(* and none has been closed by end_break, with an elapsed time (end_time,  *)
(* or now while open, minus start_time) above its duration_min minutes.    *)
Elapsed(b) ==
  (IF IsNull(breaks[b].end_time) THEN now ELSE Val(breaks[b].end_time))
    - breaks[b].start_time

C25_BreakWithinAllowedDuration ==
  \A b \in DOMAIN breaks : Elapsed(b) <= breaks[b].duration_min

(* C26: after any sequence of createLocation, updateLocation and          *)
(* deleteLocation requests every stored region has radius_meters in        *)
(* [1, 1000], latitude in [-90, 90] and longitude in [-180, 180];          *)
(* deleteLocation only sets is_active to false and removes no region; a    *)
(* rejected create or update leaves the stored regions unchanged.          *)
ValidRegion(loc) ==
  /\ IsFiniteNumber(loc.radius_meters) /\ loc.radius_meters \in 1..1000
  /\ InRanges([lat |-> loc.latitude, lon |-> loc.longitude])

LocationRequestRejected ==
  /\ pc' # pc \/ served' # served
  /\ out'.op \in {"create_location", "update_location"}
  /\ out'.code >= 400

C26_RegionsStayValid ==
  [][/\ \A i \in DOMAIN locations' : ValidRegion(locations'[i])
     /\ Len(locations') >= Len(locations)
     /\ \A id \in DOMAIN locations :
          DeleteLocation(id)
          => locations' = [locations EXCEPT ![id].is_active = FALSE]
     /\ LocationRequestRejected => UNCHANGED locations]_vars

C26_Witness ==
  /\ Len(locations) = 2
  /\ ~locations[1].is_active
  /\ locations[2].radius_meters = DefaultRadius
  /\ locations[2].latitude = 90 * UnitsPerDegree
  /\ out.op = "update_location" /\ out.error = "InvalidRadius"

(* C27: a check-in or check-out answered with a 4xx or a 5xx has created   *)
(* or modified no AttendanceDay: the failing step writes nothing and the   *)
(* request has not written before it, in particular when the user lookup   *)
(* that follows the write fails.                                           *)
RequestWrote(p) == pc[p] \in {"ci_respond", "co_respond"}

C27_FailureLeavesNoRecord ==
  [][\A p \in Procs :
       (Answers(p) /\ out'.op \in {"check_in", "check_out"} /\ out'.code >= 400)
       => (UNCHANGED attendance /\ ~RequestWrote(p))]_vars

(* C28: check-out never consults the geofences: for a user checked in     *)
(* today with no open break and valid coordinates it goes through to the   *)
(* update and succeeds, whatever the distance of the coordinates to every  *)
(* region and also when every region has been deactivated.                 *)
OpenToday(u) ==
  /\ HasDay(u, Today)
  /\ \A i \in DaysOf(u, Today) : attendance[i].check_out_time = Null

C28_CheckOutIgnoresGeofence ==
  [][\A p \in Procs :
       /\ \A u \in Users, c \in ValidPoints, report \in Reports :
            (CheckOutBegin(p, u, c, report) /\ OpenToday(u)
               /\ OpenBreaksOfUser(u, Today) = {})
            => (pc'[p] = "co_breaks" /\ req'[p].lat = c.lat /\ req'[p].lon = c.lon)
       /\ (pc[p] = "co_breaks" /\ pc'[p] # pc[p] /\ OpenBreaksOn(req[p].id) = {})
            => pc'[p] = "co_update"
       /\ (pc[p] = "co_update" /\ pc'[p] # pc[p])
            => /\ pc'[p] = "co_respond"
               /\ attendance'[req[p].id].check_out_time = Some(req[p].time)
               /\ attendance'[req[p].id].check_out_lat = Some(req[p].lat)
               /\ attendance'[req[p].id].check_out_long = Some(req[p].lon)
       /\ (pc[p] = "co_respond" /\ pc'[p] # pc[p] /\ fault = NoFault)
            => (out'.proc = p /\ out'.op = "check_out" /\ out'.code = 200)]_vars

C28_Witness ==
  /\ out.op = "check_out" /\ out.code = 200
  /\ \A l \in DOMAIN locations : ~locations[l].is_active
  /\ \E i \in DaysOf(out.user, out.date) :
       /\ attendance[i].check_out_lat = Some(OutsidePoint.lat)
       /\ attendance[i].check_in_lat = InsidePoint.lat

(* C29 as stated: once the day has rolled over, an AttendanceDay of an     *)
(* earlier date that has no check_out_time or has an open break is never   *)
(* modified again, and neither are its breaks.                             *)
StaleDays ==
  {i \in DOMAIN attendance :
     /\ attendance[i].date < Today
     /\ attendance[i].check_out_time = Null \/ OpenBreaksOn(i) # {}}

C29_StaleDayNeverModified ==
  [][\A i \in StaleDays :
       /\ attendance'[i] = attendance[i]
       /\ \A b \in DOMAIN breaks' :
            breaks'[b].attendance_id = i => (b \in DOMAIN breaks /\ breaks'[b] = breaks[b])]_vars

(* C29: check_in, start_break, end_break and check_out only read and       *)
(* modify the caller's AttendanceDay whose date is the date key the        *)
(* request computed when it started: the key is today's at that instant,   *)
(* the record the request selects and every record or break it writes      *)
(* carry that key and the caller, so a request that starts after the day   *)
(* has rolled over never modifies an AttendanceDay of an earlier date, and *)
(* a check-out or end-break then fails with NotCheckedIn.  (A request in   *)
(* flight across midnight still writes the record of the day it started.)  *)
OwnDay(p, i) ==
  attendance[i].user_id = req[p].user /\ attendance[i].date = req[p].today

C29_ScopedToRequestDay ==
  [][/\ \A p \in Procs :
          (pc[p] = "idle" /\ pc'[p] # "idle") =>
            /\ req'[p].today = Today
            /\ pc'[p] \in {"co_breaks", "sb_create"} =>
                 /\ attendance[req'[p].id].date = Today
                 /\ attendance[req'[p].id].user_id = req'[p].user
            /\ pc'[p] = "eb_update" =>
                 /\ attendance[breaks[req'[p].id].attendance_id].date = Today
                 /\ attendance[breaks[req'[p].id].attendance_id].user_id = req'[p].user
     /\ \A i \in DOMAIN attendance :
          attendance'[i] # attendance[i] =>
            \E p \in Procs : pc[p] = "co_update" /\ req[p].id = i /\ OwnDay(p, i)
     /\ \A i \in DOMAIN attendance' \ DOMAIN attendance :
          \E p \in Procs :
            /\ pc[p] = "ci_create"
            /\ attendance'[i].user_id = req[p].user /\ attendance'[i].date = req[p].today
     /\ \A b \in DOMAIN breaks :
          breaks'[b] # breaks[b] =>
            \E p \in Procs :
              pc[p] = "eb_update" /\ req[p].id = b /\ OwnDay(p, breaks[b].attendance_id)
     /\ \A b \in DOMAIN breaks' \ DOMAIN breaks :
          \E p \in Procs :
            /\ pc[p] = "sb_create" /\ breaks'[b].attendance_id = req[p].id
            /\ OwnDay(p, req[p].id)
     /\ \A p \in Procs, u \in Users :
          (~HasDay(u, Today) /\ EndBreakBegin(p, u))
          => Rejected(p, "end_break", u, "NotCheckedIn")
     /\ \A p \in Procs, u \in Users, c \in ValidPoints, report \in Reports :
          (~HasDay(u, Today) /\ CheckOutBegin(p, u, c, report))
          => Rejected(p, "check_out", u, "NotCheckedIn")]_vars

C29_Witness ==
  /\ out.op = "end_break" /\ out.error = "NotCheckedIn" /\ out.date = Today
  /\ \E i \in StaleDays :
       /\ attendance[i].user_id = out.user
       /\ attendance[i].check_out_time = Null /\ OpenBreaksOn(i) # {}

(* C30: every AttendanceDay created by check-in has its check_in_time on   *)
(* the calendar day of its date key, and its status is the classification  *)
(* of that same instant, also when the clock advances between the step     *)
(* that computes the date key and the step that reads the clock.           *)
C30_CheckInTimeOnDateKey ==
  [][\A i \in DOMAIN attendance' \ DOMAIN attendance :
       LET t == attendance'[i].check_in_time
       IN  /\ getUtcMidnight(t, tz) = attendance'[i].date
           /\ attendance'[i].status
                = classifyCheckIn(getHours(t, tz), getMinutes(t, tz), cfg)]_vars

====
